---- MODULE Spec2Model ----
(***************************************************************************)
(* Model of src/docx/shape.py: the InlineShapes collection, the            *)
(* InlineShape proxy and the Textbox proxy with its style attribute.       *)
(*                                                                         *)
(* Three specifications share the module, one per object under study:     *)
(*   SpecInline   one <wp:inline> element and its InlineShape proxy        *)
(*   SpecShapes   a document tree and one InlineShapes collection          *)
(*   SpecTextbox  one VML shape element and its Textbox proxy              *)
(***************************************************************************)
EXTENDS Integers, Sequences, FiniteSets, TLC

VARIABLES
    inline,     \* the <wp:inline> element wrapped by the InlineShape proxy
    ilast,      \* the last InlineShape call: name, argument, outcome, tree before
    written,    \* the dimensions ("cx", "cy") a setter has been called for
    tree,       \* the document tree, in pre-order: <<[id, tag, depth], ...>>
    body,       \* id of the element handed to InlineShapes.__init__ (_body)
    nextId,     \* next free element id
    clast,      \* the last InlineShapes call: name, argument, outcome, tree before
    iter,       \* the generator returned by the last __iter__ call, while in use
    style,      \* the "style" attribute of the VML shape element
    style0,     \* the "style" attribute as it was when the Textbox was built
    tlast       \* the last Textbox call: name, argument, outcome, style before

vars == <<inline, ilast, written, tree, body, nextId, clast, iter, style, style0, tlast>>
inlineVars == <<inline, ilast, written>>
shapesVars == <<tree, body, nextId, clast, iter>>
textboxVars == <<style, style0, tlast>>

\* Python's None.
None == "None"

(***************************************************************************)
(* InlineShape                                                             *)
(***************************************************************************)

\* Largest length (in EMU) written or stored in the model.
MaxEmu == 2
Lengths == 0..MaxEmu

nsmap == [pic |-> "ns/picture", c |-> "ns/chart", dgm |-> "ns/diagram"]

\* A graphicData uri that is none of the three known namespaces.
OtherUri == "ns/wordprocessingShape"

WD_INLINE_SHAPE ==
    [LINKED_PICTURE |-> "LINKED_PICTURE", PICTURE |-> "PICTURE", CHART |-> "CHART",
     SMART_ART |-> "SMART_ART", NOT_IMPLEMENTED |-> "NOT_IMPLEMENTED"]

\* The <pic:pic> children a graphicData element may have (zero or one).
PicElements ==
    { <<>> } \cup
    { << [spPr |-> [cx |-> x, cy |-> y], blipFill |-> [blip |-> [link |-> l]]] >> :
        x \in Lengths, y \in Lengths, l \in {None, "rId1"} }

\* The <wp:inline> elements of the model: a picture graphicData holds a
\* <pic:pic> child, a chart, diagram or other graphicData holds none.
InlineElements ==
    { [extent |-> [cx |-> x, cy |-> y],
       graphic |-> [graphicData |-> [uri |-> u, pic |-> p]]] :
        x \in Lengths, y \in Lengths,
        u \in {nsmap.pic, nsmap.c, nsmap.dgm, OtherUri}, p \in PicElements }

WellFormed(g) ==
    (g.graphic.graphicData.uri = nsmap.pic) <=> (g.graphic.graphicData.pic # <<>>)

\* InlineShape.height (getter)
height_get(g) == g.extent.cy

\* InlineShape.width (getter)
width_get(g) == g.extent.cx

\* InlineShape.height (setter): the element after the call and the exception
\* raised, if any.  The first statement writes extent.cy; the second reaches
\* through graphicData.pic, which is None when there is no <pic:pic> child.
height_set(g, cy) ==
    LET g1 == [g EXCEPT !.extent.cy = cy] IN
    IF g1.graphic.graphicData.pic = <<>>
    THEN [elm |-> g1, raised |-> "AttributeError"]
    ELSE [elm |-> [g1 EXCEPT !.graphic.graphicData.pic[1].spPr.cy = cy], raised |-> None]

\* A setter whose second write goes to the other dimension.
width_set_m(g, cx) ==
    LET g1 == [g EXCEPT !.extent.cx = cx] IN
    IF g1.graphic.graphicData.pic = <<>>
    THEN [elm |-> g1, raised |-> "AttributeError"]
    ELSE [elm |-> [g1 EXCEPT !.graphic.graphicData.pic[1].spPr.cy = cx], raised |-> None]

\* InlineShape.width (setter)
width_set(g, cx) ==
    LET g1 == [g EXCEPT !.extent.cx = cx] IN
    IF g1.graphic.graphicData.pic = <<>>
    THEN [elm |-> g1, raised |-> "AttributeError"]
    ELSE [elm |-> [g1 EXCEPT !.graphic.graphicData.pic[1].spPr.cx = cx], raised |-> None]

\* A classifier that tests the chart and diagram namespaces the wrong way round.
type_m(g) ==
    LET graphicData == g.graphic.graphicData
        uri == graphicData.uri
    IN  IF uri = nsmap.pic
        THEN LET blip == graphicData.pic[1].blipFill.blip IN
             IF blip.link # None THEN WD_INLINE_SHAPE.LINKED_PICTURE
             ELSE WD_INLINE_SHAPE.PICTURE
        ELSE IF uri = nsmap.dgm THEN WD_INLINE_SHAPE.CHART
        ELSE IF uri = nsmap.c THEN WD_INLINE_SHAPE.SMART_ART
        ELSE WD_INLINE_SHAPE.NOT_IMPLEMENTED

\* InlineShape.type
type(g) ==
    LET graphicData == g.graphic.graphicData
        uri == graphicData.uri
    IN  IF uri = nsmap.pic
        THEN LET blip == graphicData.pic[1].blipFill.blip IN
             IF blip.link # None THEN WD_INLINE_SHAPE.LINKED_PICTURE
             ELSE WD_INLINE_SHAPE.PICTURE
        ELSE IF uri = nsmap.c THEN WD_INLINE_SHAPE.CHART
        ELSE IF uri = nsmap.dgm THEN WD_INLINE_SHAPE.SMART_ART
        ELSE WD_INLINE_SHAPE.NOT_IMPLEMENTED

NoCall == [op |-> "none", arg |-> 0, ret |-> None, raised |-> None]

InlineInit ==
    /\ inline \in { g \in InlineElements : WellFormed(g) }
    /\ ilast = [call |-> NoCall, pre |-> inline]
    /\ written = {}

InlineIdle ==
    /\ inline = [extent |-> [cx |-> 0, cy |-> 0],
                 graphic |-> [graphicData |-> [uri |-> OtherUri, pic |-> <<>>]]]
    /\ ilast = [call |-> NoCall, pre |-> inline]
    /\ written = {}

\* value = shape.width
GetWidth ==
    /\ ilast' = [call |-> [op |-> "width", arg |-> 0, ret |-> width_get(inline),
                           raised |-> None],
                 pre |-> inline]
    /\ UNCHANGED <<inline, written>>

\* value = shape.height
GetHeight ==
    /\ ilast' = [call |-> [op |-> "height", arg |-> 0, ret |-> height_get(inline),
                           raised |-> None],
                 pre |-> inline]
    /\ UNCHANGED <<inline, written>>

\* shape.width = cx
SetWidth ==
    \E cx \in Lengths :
        LET r == width_set(inline, cx) IN
        /\ inline' = r.elm
        /\ ilast' = [call |-> [op |-> "width=", arg |-> cx, ret |-> None,
                               raised |-> r.raised],
                     pre |-> inline]
        /\ written' = written \cup {"cx"}

\* shape.height = cy
SetHeight ==
    \E cy \in Lengths :
        LET r == height_set(inline, cy) IN
        /\ inline' = r.elm
        /\ ilast' = [call |-> [op |-> "height=", arg |-> cy, ret |-> None,
                               raised |-> r.raised],
                     pre |-> inline]
        /\ written' = written \cup {"cy"}

\* kind = shape.type
GetType ==
    /\ ilast' = [call |-> [op |-> "type", arg |-> 0, ret |-> type(inline),
                           raised |-> None],
                 pre |-> inline]
    /\ UNCHANGED <<inline, written>>

NextInline ==
    /\ \/ GetWidth
       \/ GetHeight
       \/ SetWidth
       \/ SetHeight
       \/ GetType
    /\ UNCHANGED <<shapesVars, textboxVars>>

(***************************************************************************)
(* The document tree and InlineShapes                                      *)
(***************************************************************************)

\* Number of insertions into the tree in one behaviour.
MaxInserts == 2

\* An element is [id, tag, depth]; the tree is the sequence of its elements in
\* document (pre-)order, the root at depth 0.
RECURSIVE SetToSeq(_)
SetToSeq(S) ==
    IF S = {} THEN <<>>
    ELSE LET m == CHOOSE x \in S : \A y \in S : x <= y IN <<m>> \o SetToSeq(S \ {m})

\* Index of the parent of element i; 0 stands for the document node above the root.
Parent(t, i) ==
    IF t[i].depth = 0 THEN 0
    ELSE CHOOSE j \in 1..(i - 1) :
            /\ t[j].depth = t[i].depth - 1
            /\ \A k \in (j + 1)..(i - 1) : t[k].depth >= t[i].depth

\* Index of the last element of the sub-tree rooted at element i.
SubtreeEnd(t, i) ==
    CHOOSE e \in i..Len(t) :
        /\ \A k \in (i + 1)..e : t[k].depth > t[i].depth
        /\ e = Len(t) \/ t[e + 1].depth <= t[i].depth

IndexOf(t, id) == CHOOSE i \in 1..Len(t) : t[i].id = id

\* descendant-or-self of a node set; node 0 is the document node.
DescendantOrSelf(t, S) ==
    S \cup { i \in 1..Len(t) :
               \/ 0 \in S
               \/ \E a \in S \ {0} : a < i /\ i <= SubtreeEnd(t, a) }

\* One location step child::tag applied to a node set.
ChildStep(t, S, tag) == { i \in 1..Len(t) : t[i].tag = tag /\ Parent(t, i) \in S }

RECURSIVE ChildSteps(_, _, _)
ChildSteps(t, S, steps) ==
    IF steps = <<>> THEN S
    ELSE ChildSteps(t, ChildStep(t, S, Head(steps)), Tail(steps))

\* element.xpath(expr) for an expression of the form //a/b/c (absolute: the
\* path starts at the root of the document that holds the context element) or
\* .//a/b/c (relative: it starts at the context element).  The result is the
\* list of matching elements' ids in document order.
xpath(t, ctx, expr) ==
    LET start == IF expr.absolute THEN {0} ELSE {IndexOf(t, ctx)}
        hits == ChildSteps(t, DescendantOrSelf(t, start), expr.steps)
    IN  [k \in 1..Cardinality(hits) |-> t[SetToSeq(hits)[k]].id]

\* The tree of a new document: a root with the body and one more container
\* next to it, both empty.
InitTree ==
    << [id |-> 1, tag |-> "document", depth |-> 0],
       [id |-> 2, tag |-> "body", depth |-> 1],
       [id |-> 3, tag |-> "docPartBody", depth |-> 1] >>

\* A locator that answers from the tree as it was when the collection was built.
inline_lst_cached(t, b) ==
    xpath(InitTree, b, [absolute |-> TRUE, steps |-> <<"p", "r", "drawing", "inline">>])

\* InlineShapes._inline_lst: body.xpath("//w:p/w:r/w:drawing/wp:inline")
inline_lst(t, b) ==
    xpath(t, b, [absolute |-> TRUE, steps |-> <<"p", "r", "drawing", "inline">>])

\* InlineShape.__init__
InlineShape(inl) == [_inline |-> inl]

\* Indexed access that takes the list's length for a valid index.
getitem_m(t, b, idx) ==
    LET lst == inline_lst(t, b)
        n == Len(lst)
    IN  IF 0 <= idx /\ idx < n THEN [ret |-> InlineShape(lst[idx + 1]), raised |-> None]
        ELSE IF -n <= idx /\ idx < 0
             THEN [ret |-> InlineShape(lst[n + idx + 1]), raised |-> None]
        ELSE IF idx = n /\ n > 0
             THEN [ret |-> InlineShape(lst[n]), raised |-> None]
        ELSE [ret |-> None, raised |-> "IndexError"]

\* InlineShapes.__getitem__: a Python list subscript counts a negative index
\* from the end and raises IndexError outside [-n, n).
getitem(t, b, idx) ==
    LET lst == inline_lst(t, b)
        n == Len(lst)
    IN  IF 0 <= idx /\ idx < n THEN [ret |-> InlineShape(lst[idx + 1]), raised |-> None]
        ELSE IF -n <= idx /\ idx < 0
             THEN [ret |-> InlineShape(lst[n + idx + 1]), raised |-> None]
        ELSE [ret |-> None, raised |-> "IndexError"]

\* InlineShapes.__len__
len(t, b) == Len(inline_lst(t, b))

\* InlineShapes.__iter__: the generator expression evaluates _inline_lst when
\* it is created and wraps one element of that list per step.
iter_new(t, b) == [lst |-> inline_lst(t, b), pos |-> 0, yielded |-> <<>>, live |-> TRUE]

\* No generator in use.
NoIter == [lst |-> <<>>, pos |-> 0, yielded |-> <<>>, live |-> FALSE]

\* The elements a caller may put into a paragraph position of the tree.
Chains ==
    { <<"p", "r", "drawing", "inline">>,     \* an inline graphic
      <<"p", "r", "drawing", "anchor">>,     \* a floating graphic
      <<"p", "drawing", "inline">> }         \* an inline outside any run

NewElements(chain, d, id) ==
    [k \in 1..Len(chain) |-> [id |-> id + k - 1, tag |-> chain[k], depth |-> d + k - 1]]

InsertAt(t, pos, elms) == SubSeq(t, 1, pos) \o elms \o SubSeq(t, pos + 1, Len(t))

RemoveSubtree(t, i) == SubSeq(t, 1, i - 1) \o SubSeq(t, SubtreeEnd(t, i) + 1, Len(t))

ShapesInit ==
    /\ tree = InitTree
    /\ body \in {2, 3}
    /\ nextId = 4
    /\ clast = [call |-> NoCall, pre |-> tree]
    /\ iter = NoIter

ShapesIdle ==
    /\ tree = InitTree
    /\ body = 2
    /\ nextId = 4
    /\ clast = [call |-> NoCall, pre |-> tree]
    /\ iter = NoIter

\* The caller adds a paragraph as first or last child of one of the two
\* containers.  A generator in use is given up: the caller does not change the
\* tree during an iteration.
Insert ==
    \E c \in {2, 3}, chain \in Chains, atEnd \in BOOLEAN :
        LET ci == IndexOf(tree, c)
            pos == IF atEnd THEN SubtreeEnd(tree, ci) ELSE ci
        IN
        /\ nextId + 4 <= 4 + 4 * MaxInserts
        /\ tree' = InsertAt(tree, pos, NewElements(chain, tree[ci].depth + 1, nextId))
        /\ nextId' = nextId + 4
        /\ clast' = [call |-> [op |-> "insert", arg |-> 0, ret |-> None, raised |-> None],
                     pre |-> tree']
        /\ iter' = NoIter
        /\ UNCHANGED body

\* The caller removes a paragraph with all it contains.
Remove ==
    \E i \in 1..Len(tree) :
        /\ tree[i].tag = "p"
        /\ tree' = RemoveSubtree(tree, i)
        /\ clast' = [call |-> [op |-> "remove", arg |-> 0, ret |-> None, raised |-> None],
                     pre |-> tree']
        /\ iter' = NoIter
        /\ UNCHANGED <<body, nextId>>

\* n = len(inline_shapes)
CallLen ==
    /\ clast' = [call |-> [op |-> "len", arg |-> 0, ret |-> len(tree, body), raised |-> None],
                 pre |-> tree]
    /\ UNCHANGED <<tree, body, nextId, iter>>

\* shape = inline_shapes[idx], for the indices of the list and the first one
\* beyond it on either side
CallGetItem ==
    \E idx \in (-(len(tree, body) + 1))..len(tree, body) :
        LET r == getitem(tree, body, idx) IN
        /\ clast' = [call |-> [op |-> "getitem", arg |-> idx, ret |-> r.ret,
                               raised |-> r.raised],
                     pre |-> tree]
        /\ UNCHANGED <<tree, body, nextId, iter>>

\* it = iter(inline_shapes)
CallIter ==
    /\ iter' = iter_new(tree, body)
    /\ clast' = [call |-> [op |-> "iter", arg |-> 0, ret |-> None, raised |-> None],
                 pre |-> tree]
    /\ UNCHANGED <<tree, body, nextId>>

\* shape = next(it), for a generator that has elements left
IterNext ==
    /\ iter.live
    /\ iter.pos < Len(iter.lst)
    /\ iter' = [iter EXCEPT !.pos = iter.pos + 1,
                            !.yielded = Append(iter.yielded, InlineShape(iter.lst[iter.pos + 1]))]
    /\ clast' = [call |-> [op |-> "next", arg |-> 0, ret |-> InlineShape(iter.lst[iter.pos + 1]),
                           raised |-> None],
                 pre |-> tree]
    /\ UNCHANGED <<tree, body, nextId>>

NextShapes ==
    /\ \/ Insert
       \/ Remove
       \/ CallLen
       \/ CallGetItem
       \/ CallIter
       \/ IterNext
    /\ UNCHANGED <<inlineVars, textboxVars>>

(***************************************************************************)
(* Python strings, as sequences of one-character strings                   *)
(***************************************************************************)

Digits == <<"0", "1", "2", "3", "4", "5", "6", "7", "8", "9">>
IsDigit(c) == \E d \in 1..10 : Digits[d] = c
DigitVal(c) == (CHOOSE d \in 1..10 : Digits[d] = c) - 1
IsSpace(c) == c = " "

\* sub occurs in s at index i
OccursAt(s, sub, i) ==
    /\ i >= 1
    /\ i + Len(sub) - 1 <= Len(s)
    /\ \A k \in 1..Len(sub) : s[i + k - 1] = sub[k]

\* s.find(sub, i - 1) + 1: the first index from i on where sub occurs in s,
\* 0 when there is none
RECURSIVE Find(_, _, _)
Find(s, sub, i) ==
    IF i + Len(sub) - 1 > Len(s) THEN 0
    ELSE IF OccursAt(s, sub, i) THEN i
    ELSE Find(s, sub, i + 1)

\* sub in s
Contains(s, sub) == Find(s, sub, 1) # 0

\* s.split(sep), for a non-empty sep
RECURSIVE split(_, _)
split(s, sep) ==
    LET i == Find(s, sep, 1) IN
    IF i = 0 THEN <<s>>
    ELSE <<SubSeq(s, 1, i - 1)>> \o split(SubSeq(s, i + Len(sep), Len(s)), sep)

\* s.strip()
RECURSIVE lstrip(_)
lstrip(s) == IF s # <<>> /\ IsSpace(Head(s)) THEN lstrip(Tail(s)) ELSE s

RECURSIVE rstrip(_)
rstrip(s) ==
    IF s # <<>> /\ IsSpace(s[Len(s)]) THEN rstrip(SubSeq(s, 1, Len(s) - 1)) ELSE s

strip(s) == rstrip(lstrip(s))

\* s.startswith(prefix)
startswith(s, prefix) == OccursAt(s, prefix, 1)

\* sep.join(parts)
RECURSIVE join(_, _)
join(sep, parts) ==
    IF parts = <<>> THEN <<>>
    ELSE IF Len(parts) = 1 THEN parts[1]
    ELSE parts[1] \o sep \o join(sep, Tail(parts))

\* s.replace(old, new), for a non-empty old
replace(s, old, new) == join(new, split(s, old))

(***************************************************************************)
(* Python floats: the decimal m * 10^(-e), with no trailing zero digit in  *)
(* the fraction                                                            *)
(***************************************************************************)

RECURSIVE Pow10(_)
Pow10(e) == IF e = 0 THEN 1 ELSE 10 * Pow10(e - 1)

RECURSIVE Normal(_)
Normal(v) ==
    IF v.e > 0 /\ v.m % 10 = 0 THEN Normal([m |-> v.m \div 10, e |-> v.e - 1]) ELSE v

Float(m, e) == Normal([m |-> m, e |-> e])

RECURSIVE DigitsVal(_)
DigitsVal(s) ==
    IF s = <<>> THEN 0 ELSE 10 * DigitsVal(SubSeq(s, 1, Len(s) - 1)) + DigitVal(s[Len(s)])

RECURSIVE IntStr(_)
IntStr(n) == IF n < 10 THEN <<Digits[n + 1]>> ELSE IntStr(n \div 10) \o <<Digits[(n % 10) + 1]>>

RECURSIVE ZeroPad(_, _)
ZeroPad(s, w) == IF Len(s) >= w THEN s ELSE ZeroPad(<<"0">> \o s, w)

\* f"{value}" for a float: the shortest decimal that reads back as value
format_float(v) ==
    LET a == IF v.m < 0 THEN -v.m ELSE v.m
        sign == IF v.m < 0 THEN <<"-">> ELSE <<>>
        ip == a \div Pow10(v.e)
        fp == a % Pow10(v.e)
    IN  sign \o IntStr(ip) \o <<".">> \o
        (IF v.e = 0 THEN <<"0">> ELSE ZeroPad(IntStr(fp), v.e))

\* float(s) for decimal literals: surrounding whitespace is ignored, then an
\* optional sign, digits and at most one point, with a digit on one side of it.
float(s) ==
    LET t == strip(s)
        neg == t # <<>> /\ Head(t) = "-"
        u == IF t # <<>> /\ Head(t) \in {"-", "+"} THEN Tail(t) ELSE t
        points == { i \in 1..Len(u) : u[i] = "." }
        ip == IF points = {} THEN u
              ELSE SubSeq(u, 1, (CHOOSE i \in points : TRUE) - 1)
        fp == IF points = {} THEN <<>>
              ELSE SubSeq(u, (CHOOSE i \in points : TRUE) + 1, Len(u))
        ok == /\ Cardinality(points) <= 1
              /\ \A i \in 1..Len(u) : i \notin points => IsDigit(u[i])
              /\ Len(ip) + Len(fp) >= 1
    IN  IF ok
        THEN [ret |-> Float((IF neg THEN -1 ELSE 1) * DigitsVal(ip \o fp), Len(fp)),
              raised |-> None]
        ELSE [ret |-> Float(0, 0), raised |-> "ValueError"]

(***************************************************************************)
(* Textbox                                                                 *)
(***************************************************************************)

\* Largest number of key:value pairs in the style attribute of a loaded shape.
MaxPairs == 2
\* Number of style writes in one behaviour.
MaxSets == 2

margin_left == <<"m", "a", "r", "g", "i", "n", "-", "l", "e", "f", "t">>
margin_top == <<"m", "a", "r", "g", "i", "n", "-", "t", "o", "p">>
width == <<"w", "i", "d", "t", "h">>
height == <<"h", "e", "i", "g", "h", "t">>
border_width == <<"b", "o", "r", "d", "e", "r", "-">> \o width
pt == <<"p", "t">>

\* The pairs a loaded style attribute is made of: a property of the proxy, a
\* key that ends in a property's name, and a pair written with blanks.
LoadedPairs ==
    { width \o <<":", "3", ".", "0">> \o pt,
      border_width \o <<":", "1", ".", "5">> \o pt,
      <<" ">> \o border_width \o <<":", "2">> \o pt \o <<" ">> }

RECURSIVE Serialized(_)
Serialized(pairs) ==
    IF pairs = <<>> THEN <<>> ELSE Head(pairs) \o <<";">> \o Serialized(Tail(pairs))

\* Style strings of the grammar (key ":" value ";")*, no pair written twice
LoadedStyles ==
    { Serialized(ps) :
        ps \in { q \in UNION { [1..n -> LoadedPairs] : n \in 0..MaxPairs } :
                    \A j, k \in 1..Len(q) : q[j] = q[k] => j = k } }

\* The numbers written through the four properties: 2.5
FloatValues == { Float(25, 1) }

\* The (name, value) arguments of direct calls of _update_style_property.
DirectArgs ==
    { <<width, <<"3", ".", "0">> \o pt>>,
      <<<<" ">> \o width, <<"2">> \o pt>> }

\* The shared body of the four getters: the text between the first occurrence
\* of "<key>:" and the next ";" , without "pt", as a float; 0.0 when "<key>:"
\* does not occur.
read_pt(s, key) ==
    IF Contains(s, key \o <<":">>)
    THEN LET part == split(split(s, key \o <<":">>)[2], <<";">>)[1] IN
         float(replace(part, pt, <<>>))
    ELSE [ret |-> Float(0, 0), raised |-> None]

\* Textbox.left (getter)
left_get(s) == read_pt(s, margin_left)

\* Textbox.top (getter)
top_get(s) == read_pt(s, margin_top)

\* Textbox.width (getter)
tb_width_get(s) == read_pt(s, width)

\* Textbox.height (getter)
tb_height_get(s) == read_pt(s, height)

\* Textbox.text (getter): a placeholder
text_get(s) == <<>>

\* An update that leaves the pairs of the property in place.
update_style_property_keep(s, property_name, value) ==
    LET parts0 == split(s, <<";">>)
        stripped == [k \in 1..Len(parts0) |-> strip(parts0[k])]
        style_parts == SelectSeq(stripped, LAMBDA part : part # <<>>)
        appended == Append(style_parts, property_name \o <<":">> \o value)
    IN  join(<<";">>, appended) \o <<";">>

\* An update that writes no separator after the last pair.
update_style_property_nosep(s, property_name, value) ==
    LET parts0 == split(s, <<";">>)
        stripped == [k \in 1..Len(parts0) |-> strip(parts0[k])]
        style_parts == SelectSeq(stripped, LAMBDA part : part # <<>>)
        kept == SelectSeq(style_parts,
                          LAMBDA part : ~startswith(part, property_name \o <<":">>))
        appended == Append(kept, property_name \o <<":">> \o value)
    IN  join(<<";">>, appended)

\* Textbox._update_style_property: the new value of the style attribute
update_style_property(s, property_name, value) ==
    LET parts0 == split(s, <<";">>)
        stripped == [k \in 1..Len(parts0) |-> strip(parts0[k])]
        style_parts == SelectSeq(stripped, LAMBDA part : part # <<>>)
        kept == SelectSeq(style_parts,
                          LAMBDA part : ~startswith(part, property_name \o <<":">>))
        appended == Append(kept, property_name \o <<":">> \o value)
    IN  join(<<";">>, appended) \o <<";">>

\* Textbox.left (setter)
left_set(s, value) == update_style_property(s, margin_left, format_float(value) \o pt)

\* Textbox.top (setter)
top_set(s, value) == update_style_property(s, margin_top, format_float(value) \o pt)

\* Textbox.width (setter)
tb_width_set(s, value) == update_style_property(s, width, format_float(value) \o pt)

\* Textbox.height (setter)
tb_height_set(s, value) == update_style_property(s, height, format_float(value) \o pt)

NoWrite == [name |-> <<>>, value |-> <<>>]

TextboxInit ==
    /\ style \in LoadedStyles
    /\ style0 = style
    /\ tlast = [call |-> NoCall, pre |-> style, write |-> NoWrite, repeat |-> FALSE,
                n |-> 0, names |-> {}]

TextboxIdle ==
    /\ style = <<>>
    /\ style0 = style
    /\ tlast = [call |-> NoCall, pre |-> style, write |-> NoWrite, repeat |-> FALSE,
                n |-> 0, names |-> {}]

\* A read of one of the properties.
Read(op, r) ==
    /\ tlast' = [tlast EXCEPT !.call = [op |-> op, arg |-> 0, ret |-> r.ret,
                                        raised |-> r.raised],
                              !.pre = style, !.write = NoWrite, !.repeat = FALSE]
    /\ UNCHANGED <<style, style0>>

\* A write of the style attribute, through a property or directly.
Write(op, arg, name, value, new) ==
    /\ tlast.n < MaxSets
    /\ style' = new
    /\ tlast' = [call |-> [op |-> op, arg |-> arg, ret |-> None, raised |-> None],
                 pre |-> style,
                 write |-> [name |-> name, value |-> value],
                 repeat |-> (tlast.write = [name |-> name, value |-> value]),
                 n |-> tlast.n + 1,
                 names |-> tlast.names \cup {name}]
    /\ UNCHANGED style0

GetLeft == Read("left", left_get(style))
GetTop == Read("top", top_get(style))
GetTbWidth == Read("width", tb_width_get(style))
GetTbHeight == Read("height", tb_height_get(style))
GetText == Read("text", [ret |-> text_get(style), raised |-> None])

SetLeft ==
    \E v \in FloatValues :
        Write("left=", v, margin_left, format_float(v) \o pt, left_set(style, v))
SetTop ==
    \E v \in FloatValues :
        Write("top=", v, margin_top, format_float(v) \o pt, top_set(style, v))
SetTbWidth ==
    \E v \in FloatValues :
        Write("width=", v, width, format_float(v) \o pt, tb_width_set(style, v))
SetTbHeight ==
    \E v \in FloatValues :
        Write("height=", v, height, format_float(v) \o pt, tb_height_set(style, v))

\* textbox.text = value: a placeholder, nothing is stored
SetText ==
    /\ tlast' = [tlast EXCEPT !.call = [op |-> "text=", arg |-> 0, ret |-> None,
                                        raised |-> None],
                              !.pre = style, !.write = NoWrite, !.repeat = FALSE]
    /\ UNCHANGED <<style, style0>>

\* textbox._update_style_property(name, value)
UpdateStyleProperty ==
    \E a \in DirectArgs :
        Write("update", 0, a[1], a[2], update_style_property(style, a[1], a[2]))

NextTextbox ==
    /\ \/ GetLeft
       \/ GetTop
       \/ GetTbWidth
       \/ GetTbHeight
       \/ GetText
       \/ SetLeft
       \/ SetTop
       \/ SetTbWidth
       \/ SetTbHeight
       \/ SetText
       \/ UpdateStyleProperty
    /\ UNCHANGED <<inlineVars, shapesVars>>

(***************************************************************************)
(* Specifications                                                          *)
(***************************************************************************)

InitInline == InlineInit /\ ShapesIdle /\ TextboxIdle
InitShapes == InlineIdle /\ ShapesInit /\ TextboxIdle
InitTextbox == InlineIdle /\ ShapesIdle /\ TextboxInit

SpecInline == InitInline /\ [][NextInline]_vars
SpecShapes == InitShapes /\ [][NextShapes]_vars
SpecTextbox == InitTextbox /\ [][NextTextbox]_vars

(***************************************************************************)
(* Properties of InlineShape, under SpecInline                              *)
(***************************************************************************)

HasPic(g) == g.graphic.graphicData.pic # <<>>
SpPr(g) == g.graphic.graphicData.pic[1].spPr

\* C1: on an inline graphic with a pic sub-tree, after shape.width = v the
\* getter reads v and extent.cx and pic.spPr.cx both equal v, likewise for
\* height with extent.cy and pic.spPr.cy; so every dimension that has been
\* written has equal extent and spPr values.
C1_SizeWritesAreSynchronized ==
    /\ (ilast.call.op = "width=" /\ HasPic(ilast.pre)) =>
          /\ ilast.call.raised = None
          /\ width_get(inline) = ilast.call.arg
          /\ inline.extent.cx = ilast.call.arg
          /\ SpPr(inline).cx = ilast.call.arg
    /\ (ilast.call.op = "height=" /\ HasPic(ilast.pre)) =>
          /\ ilast.call.raised = None
          /\ height_get(inline) = ilast.call.arg
          /\ inline.extent.cy = ilast.call.arg
          /\ SpPr(inline).cy = ilast.call.arg
    /\ (HasPic(inline) /\ "cx" \in written) => inline.extent.cx = SpPr(inline).cx
    /\ (HasPic(inline) /\ "cy" \in written) => inline.extent.cy = SpPr(inline).cy

\* A picture whose two widths differed and whose width was written with a new
\* value, after its height had been written.
C1_Witness ==
    /\ ilast.call.op = "width="
    /\ HasPic(ilast.pre)
    /\ ilast.pre.extent.cx # SpPr(ilast.pre).cx
    /\ ilast.call.arg # ilast.pre.extent.cx
    /\ ilast.call.arg # SpPr(ilast.pre).cx
    /\ written = {"cx", "cy"}

\* C2: a width or height write on an inline graphic without the pic/spPr path
\* fails and leaves the element as it was before the call.
C2_SizeWriteFailsAtomically ==
    (ilast.call.op \in {"width=", "height="} /\ ~HasPic(ilast.pre)) =>
        /\ ilast.call.raised # None
        /\ inline = ilast.pre

\* C4: type depends on the graphicData uri and the blip link only, maps them
\* as the classification table says, raises nothing and changes nothing.
C4_TypeClassifies ==
    ilast.call.op = "type" =>
        LET uri == inline.graphic.graphicData.uri IN
        /\ ilast.call.raised = None
        /\ inline = ilast.pre
        /\ (uri = nsmap.pic /\ inline.graphic.graphicData.pic[1].blipFill.blip.link = None)
              => ilast.call.ret = "PICTURE"
        /\ (uri = nsmap.pic /\ inline.graphic.graphicData.pic[1].blipFill.blip.link # None)
              => ilast.call.ret = "LINKED_PICTURE"
        /\ uri = nsmap.c => ilast.call.ret = "CHART"
        /\ uri = nsmap.dgm => ilast.call.ret = "SMART_ART"
        /\ uri \notin {nsmap.pic, nsmap.c, nsmap.dgm} => ilast.call.ret = "NOT_IMPLEMENTED"

\* A chart whose size was written before it was classified.
C4_Witness ==
    /\ ilast.call.op = "type"
    /\ ilast.call.ret = "CHART"
    /\ written # {}

(***************************************************************************)
(* Properties of InlineShapes, under SpecShapes                            *)
(***************************************************************************)

\* The matching rule: an <inline> in a <drawing> in a <r> in a <p>.
IsInlineGraphic(t, i) ==
    /\ t[i].tag = "inline"
    /\ t[i].depth >= 3
    /\ t[Parent(t, i)].tag = "drawing"
    /\ t[Parent(t, Parent(t, i))].tag = "r"
    /\ t[Parent(t, Parent(t, Parent(t, i)))].tag = "p"

\* The ids of the inline graphics of the whole tree, in document order.
Matches(t) ==
    LET idx == SetToSeq({ i \in 1..Len(t) : IsInlineGraphic(t, i) }) IN
    [k \in 1..Len(idx) |-> t[idx[k]].id]

\* The ids of the inline graphics below element b, in document order.
MatchesBelow(t, b) ==
    LET bi == IndexOf(t, b)
        idx == SetToSeq({ i \in (bi + 1)..SubtreeEnd(t, bi) : IsInlineGraphic(t, i) })
    IN  [k \in 1..Len(idx) |-> t[idx[k]].id]

\* C3 as stated: get(index) raises the index error for every index outside
\* [0, n), the negative ones included.
C3_EveryIndexOutsideRangeFails ==
    (clast.call.op = "getitem" /\
     (clast.call.arg < 0 \/ clast.call.arg >= Len(Matches(clast.pre)))) =>
        clast.call.raised = "IndexError"

\* C3 as amended: get(index) raises the index error exactly when index >= n or
\* index < -n; an index in [-n, 0) counts from the end and returns the proxy
\* of match n + index.
C3_IndexOutsideListRangeFails ==
    clast.call.op = "getitem" =>
        LET m == Matches(clast.pre)
            n == Len(m)
            idx == clast.call.arg
        IN  /\ (clast.call.raised = "IndexError") <=> (idx >= n \/ idx < -n)
            /\ (-n <= idx /\ idx < 0) => clast.call.ret = [_inline |-> m[n + idx + 1]]
            /\ clast.call.raised \in {None, "IndexError"}

\* get(-1) on a collection of two returned the last one.
C3_Witness ==
    /\ clast.call.op = "getitem"
    /\ clast.call.arg = -1
    /\ Len(Matches(clast.pre)) = 2
    /\ clast.call.raised = None

\* C9: the collection is a live view: len() is the current number of matches,
\* get(i) wraps the current i-th match for 0 <= i < len(), a generator
\* started on the current tree yields the matches in order, len() of them
\* when it is exhausted; and none of the three changes the tree.
C9_CollectionIsLiveView ==
    LET m == Matches(tree) IN
    /\ clast.call.op \in {"len", "getitem", "iter", "next"} => tree = clast.pre
    /\ clast.call.op = "len" => clast.call.ret = Len(m)
    /\ (clast.call.op = "getitem" /\ 0 <= clast.call.arg /\ clast.call.arg < Len(m)) =>
          /\ clast.call.raised = None
          /\ clast.call.ret = [_inline |-> m[clast.call.arg + 1]]
    /\ iter.live =>
          /\ iter.pos <= Len(m)
          /\ iter.yielded = [k \in 1..iter.pos |-> [_inline |-> m[k]]]
          /\ (iter.pos = Len(iter.lst)) => Len(iter.yielded) = len(tree, body)

\* After two insertions and a removal, a generator has yielded the one inline
\* graphic that is left.
C9_Witness ==
    /\ clast.call.op = "next"
    /\ iter.live
    /\ iter.pos = Len(iter.lst)
    /\ Len(iter.yielded) = 1
    /\ nextId = 12
    /\ Len(tree) < 9

\* C10: the collection holds inline graphics below the element it was built
\* from only: len() counts those, get and iteration return those.
C10_OnlyDescendantsOfBody ==
    /\ clast.call.op = "len" => clast.call.ret = Len(MatchesBelow(tree, body))
    /\ (clast.call.op \in {"getitem", "next"} /\ clast.call.raised = None) =>
          \E k \in 1..Len(MatchesBelow(tree, body)) :
              clast.call.ret = [_inline |-> MatchesBelow(tree, body)[k]]

(***************************************************************************)
(* Properties of Textbox, under SpecTextbox                                *)
(***************************************************************************)

PropertyWrites == {"left=", "top=", "width=", "height="}
PropertyReads == {"left", "top", "width", "height"}
AnyWrite == PropertyWrites \cup {"update"}

KeyOfProperty(op) ==
    CASE op \in {"left", "left="} -> margin_left
      [] op \in {"top", "top="} -> margin_top
      [] op \in {"width", "width="} -> width
      [] op \in {"height", "height="} -> height

ReadOf(op, s) ==
    CASE op = "left=" -> left_get(s)
      [] op = "top=" -> top_get(s)
      [] op = "width=" -> tb_width_get(s)
      [] op = "height=" -> tb_height_get(s)

\* The pairs of a style string: its non-empty fragments between separators.
Fragments(s) == SelectSeq(split(s, <<";">>), LAMBDA f : f # <<>>)
\* The same, each without surrounding blanks, the blank ones left out.
TrimmedFragments(s) ==
    LET fs == split(s, <<";">>) IN
    SelectSeq([k \in 1..Len(fs) |-> strip(fs[k])], LAMBDA f : f # <<>>)
\* The key of a pair: the text before its first ":".
KeyOf(f) == split(f, <<":">>)[1]
\* The value of a pair: the text after its first ":".
ValueOf(f) == SubSeq(f, Len(KeyOf(f)) + 2, Len(f))

Without(fs, key) == SelectSeq(fs, LAMBDA f : KeyOf(f) # key)
Occurrences(fs, key) == Cardinality({ k \in 1..Len(fs) : KeyOf(fs[k]) = key })
UniqueKeys(fs) == \A j, k \in 1..Len(fs) : KeyOf(fs[j]) = KeyOf(fs[k]) => j = k
NoLeadingBlank(key) == key # <<>> /\ ~IsSpace(Head(key))

\* C5: after a property is set to v, its getter returns v and the style
\* string contains "<key>:<v>pt;".
C5_ReadYourWrite ==
    tlast.call.op \in PropertyWrites =>
        /\ ReadOf(tlast.call.op, style).raised = None
        /\ ReadOf(tlast.call.op, style).ret = tlast.call.arg
        /\ Contains(style, KeyOfProperty(tlast.call.op) \o <<":">> \o
                           format_float(tlast.call.arg) \o pt \o <<";">>)

C8_ReadMatchesKeyExactly ==
    tlast.call.op \in PropertyReads =>
        LET key == KeyOfProperty(tlast.call.op)
            fs == Fragments(tlast.pre)
            hits == { k \in 1..Len(fs) : KeyOf(fs[k]) = key }
        IN  IF hits = {}
            THEN tlast.call.raised = None /\ tlast.call.ret = Float(0, 0)
            ELSE LET f == fs[CHOOSE k \in hits : \A j \in hits : k <= j] IN
                 /\ tlast.call.raised = float(replace(ValueOf(f), pt, <<>>)).raised
                 /\ tlast.call.ret = float(replace(ValueOf(f), pt, <<>>)).ret

====
